---- MODULE Spec2Model ----
(***************************************************************************)
(* GramsOccupancy: the staged simulation chain of scripts/run_sim.py and   *)
(* the angular-flux-to-sky-map interpolation of scripts/make_flux_maps.py. *)
(*                                                                         *)
(* Two state machines share this module.  Spec is one run of run_sim.py    *)
(* main() over a list of particles; FluxSpec is one call of                *)
(* make_flux_map().  Each specification keeps the other machine's          *)
(* variables at their idle values.                                         *)
(***************************************************************************)
EXTENDS Integers, Sequences, FiniteSets, TLC

VARIABLES
    \* ---- run_sim.py ----
    particles,      \* main: the list of work items (args.particles or all keys)
    start_from,     \* args.start_from
    stop_after,     \* args.stop_after
    storage,        \* the set of paths for which os.path.exists() is true
    pc,             \* position of main: "main", "loop", "sim", "exit"
    item,           \* index in particles of the current iteration of main's loop
    stage_pos,      \* index in stages_to_run of the current iteration of the stage loop
    calls,          \* every subprocess.run made so far, in order
    results,        \* what main printed for each work item handled so far, in order
    exit_code,      \* process exit status, NoExit while running
    \* ---- make_flux_maps.py ----
    fpc,            \* position of make_flux_map: "idle", "call", "pixels", "returned", "raised"
    nside,          \* argument nside
    df,             \* argument df: sequence of rows [particle, energy, costheta, flux]
    arg_particle,   \* argument particle
    arg_energy,     \* argument energy
    ipix,           \* loop variable of the pixel loop
    flux_map,       \* the array being filled, one rational per pixel written so far
    reads,          \* indices of fluxes[] read so far
    ge_at_tie,      \* what "costheta >= 1.0 - delta_costheta" gives in floating
                    \* point for a pixel centre that lies on 1 - delta_costheta
    raised          \* the exception that ended the call, or "none"

simvars  == <<particles, start_from, stop_after, storage, pc, item, stage_pos,
              calls, results, exit_code>>
fluxvars == <<fpc, nside, df, arg_particle, arg_energy, ipix, flux_map, reads,
              ge_at_tie, raised>>
vars     == <<simvars, fluxvars>>

-----------------------------------------------------------------------------
(* Bounds of the model *)

MaxItems == 2        \* longest --particles list
MaxInitFiles == 2    \* most files present on storage when the run starts
MaxNside == 2        \* largest HEALPix resolution
MaxSamples == 4      \* most rows of the requested (particle, energy) slice
MaxFlux == 1         \* largest tabulated flux value, in table units

-----------------------------------------------------------------------------
(* run_sim.py: constants *)

SIM_STAGES == <<"gramssky", "gramsg4", "gramsdetsim", "gramsreadoutsim",
                "gramselecsim", "opticalsim", "opdetsim">>

StageNames == {SIM_STAGES[i] : i \in DOMAIN SIM_STAGES}

\* Keys of config.PARTICLE_DICT (two of the eight, in dictionary order).
PARTICLE_DICT == <<"neutro", "proton">>

KnownParticles == {PARTICLE_DICT[i] : i \in DOMAIN PARTICLE_DICT}

\* A --particles argument that is no key of PARTICLE_DICT.
UnknownParticle == "bogus"

\* run_sim.py imports LIGHTMAP_DIR from config; it is one path shared by all
\* work items.
LIGHTMAP_DIR == <<"config", "LIGHTMAP_DIR">>

\* args.options: the GramsSim options XML file, one path for the whole run.
OPTIONS_FILE == <<"config", "OPTIONS_FILE">>

NoExit == -1

\* subprocess returncode: 0, or nonzero.
ReturnCodes == {0, 1}

-----------------------------------------------------------------------------
(* run_sim.py: pure helpers *)

\* SIM_STAGES.index(stage)
StageIndex(stage) == CHOOSE i \in DOMAIN SIM_STAGES : SIM_STAGES[i] = stage

\* Variant: the slice written without the "+1", so that it stops before stop.
stages_to_run_exclusive(start, stop) ==
    SubSeq(SIM_STAGES, StageIndex(start), StageIndex(stop) - 1)

\* Variant: a start after stop is read as the range from stop through start.
stages_to_run_ordered(start, stop) ==
    IF StageIndex(start) <= StageIndex(stop)
    THEN SubSeq(SIM_STAGES, StageIndex(start), StageIndex(stop))
    ELSE SubSeq(SIM_STAGES, StageIndex(stop), StageIndex(start))

\* SIM_STAGES[SIM_STAGES.index(start):SIM_STAGES.index(stop)+1]
stages_to_run(start, stop) ==
    SubSeq(SIM_STAGES, StageIndex(start), StageIndex(stop))

\* os.path.join(fits_dir, f"{LOCATION}_{DATE}_{particle}.fits")
fits_file(particle) == <<particle, "fits">>

\* Variant: the paths are built without the particle in the prefix.
get_file_paths_shared(particle) ==
    [hepmc3     |-> <<"sim", "hepmc3">>,
     g4         |-> <<"sim", "g4">>,
     detsim     |-> <<"sim", "detsim">>,
     readoutsim |-> <<"sim", "readoutsim">>,
     elecsim    |-> <<"sim", "elecsim">>,
     opticalsim |-> <<"sim", "opticalsim">>,
     opdetsim   |-> <<"sim", "opdetsim">>]

\* get_file_paths(sim_dir, f"{LOCATION}_{particle}")
get_file_paths(particle) ==
    [hepmc3     |-> <<particle, "hepmc3">>,
     g4         |-> <<particle, "g4">>,
     detsim     |-> <<particle, "detsim">>,
     readoutsim |-> <<particle, "readoutsim">>,
     elecsim    |-> <<particle, "elecsim">>,
     opticalsim |-> <<particle, "opticalsim">>,
     opdetsim   |-> <<particle, "opdetsim">>]

\* Variant: gramsdetsim checks the hepmc3 file instead of the g4 file.
stage_checks_copied(stage, particle) ==
    LET paths == get_file_paths(particle) IN
    CASE stage = "gramssky"        -> <<>>
      [] stage = "gramsg4"         -> <<paths.hepmc3>>
      [] stage = "gramsdetsim"     -> <<paths.hepmc3>>
      [] stage = "gramsreadoutsim" -> <<paths.detsim>>
      [] stage = "gramselecsim"    -> <<paths.detsim, paths.readoutsim>>
      [] stage = "opticalsim"      -> <<paths.g4, LIGHTMAP_DIR>>
      [] stage = "opdetsim"        -> <<paths.opticalsim>>

\* The os.path.exists checks run_particle_sim makes before a stage, in order.
stage_checks(stage, particle) ==
    LET paths == get_file_paths(particle) IN
    CASE stage = "gramssky"        -> <<>>
      [] stage = "gramsg4"         -> <<paths.hepmc3>>
      [] stage = "gramsdetsim"     -> <<paths.g4>>
      [] stage = "gramsreadoutsim" -> <<paths.detsim>>
      [] stage = "gramselecsim"    -> <<paths.detsim, paths.readoutsim>>
      [] stage = "opticalsim"      -> <<paths.g4, LIGHTMAP_DIR>>
      [] stage = "opdetsim"        -> <<paths.opticalsim>>

\* The "-o" argument of a stage.
stage_output(stage, particle) ==
    LET paths == get_file_paths(particle) IN
    CASE stage = "gramssky"        -> paths.hepmc3
      [] stage = "gramsg4"         -> paths.g4
      [] stage = "gramsdetsim"     -> paths.detsim
      [] stage = "gramsreadoutsim" -> paths.readoutsim
      [] stage = "gramselecsim"    -> paths.elecsim
      [] stage = "opticalsim"      -> paths.opticalsim
      [] stage = "opdetsim"        -> paths.opdetsim

\* The input paths on a stage's command line.
stage_inputs(stage, particle) ==
    LET paths == get_file_paths(particle) IN
    CASE stage = "gramssky"        -> {fits_file(particle)}
      [] stage = "gramsg4"         -> {paths.hepmc3}
      [] stage = "gramsdetsim"     -> {paths.g4}
      [] stage = "gramsreadoutsim" -> {paths.detsim}
      [] stage = "gramselecsim"    -> {paths.detsim, paths.readoutsim}
      [] stage = "opticalsim"      -> {paths.g4, LIGHTMAP_DIR}
      [] stage = "opdetsim"        -> {paths.opticalsim}

\* run_stage: "cmd = [exe, options_file] + args_list", the paths the started
\* process is given: the options file, its inputs and its output.
cmd(stage, particle) ==
    {OPTIONS_FILE} \cup stage_inputs(stage, particle)
        \cup {stage_output(stage, particle)}

\* First failing os.path.exists check of a stage, 0 when all pass.
first_missing(stage, particle, store) ==
    LET checks == stage_checks(stage, particle)
        bad == {i \in DOMAIN checks : checks[i] \notin store}
    IN IF bad = {} THEN 0 ELSE CHOOSE i \in bad : \A j \in bad : i <= j

\* Variant: the return code is not looked at.
run_stage_unchecked(returncode) == TRUE

\* run_stage: "if result.returncode != 0: return False; return True"
run_stage(returncode) == returncode = 0

\* main: "if success: [OK] Done  else: [FAIL] Simulation chain failed"
report(success) == IF success THEN "OK" ELSE "FAIL"

-----------------------------------------------------------------------------
(* run_sim.py: the run *)

Range(s) == {s[i] : i \in DOMAIN s}

\* Non-empty lists over S of length at most n that name no element twice.
SeqsUpTo(S, n) ==
    {s \in UNION {[1..k -> S] : k \in 1..n} :
        \A i, j \in DOMAIN s : s[i] = s[j] => i = j}

\* particles = args.particles if args.particles else list(PARTICLE_DICT.keys())
ParticleLists ==
    {PARTICLE_DICT} \cup SeqsUpTo(KnownParticles \cup {UnknownParticle}, MaxItems)

FileKinds == {"fits", "hepmc3", "g4", "detsim", "readoutsim", "elecsim",
              "opticalsim", "opdetsim"}

\* The kinds of file some os.path.exists check or some stage reads; elecsim
\* and opdetsim files are only ever written.
InputKinds == {"fits", "hepmc3", "g4", "detsim", "readoutsim", "opticalsim"}

\* Paths the run over list ps can look at.
PathsOf(ps) ==
    {<<p, k>> : p \in Range(ps) \cap KnownParticles, k \in InputKinds}
        \cup {LIGHTMAP_DIR}

SimInit ==
    /\ particles \in ParticleLists
    /\ start_from \in StageNames
    /\ stop_after \in StageNames
    /\ storage \in {S \in SUBSET PathsOf(particles) : Cardinality(S) <= MaxInitFiles}
    /\ pc = "main"
    /\ item = 1
    /\ stage_pos = 1
    /\ calls = <<>>
    /\ results = <<>>
    /\ exit_code = NoExit

SimIdle ==
    /\ particles = <<>>
    /\ start_from = "gramssky"
    /\ stop_after = "gramssky"
    /\ storage = {}
    /\ pc = "exit"
    /\ item = 1
    /\ stage_pos = 1
    /\ calls = <<>>
    /\ results = <<>>
    /\ exit_code = NoExit

\* main, lines 149-155: the options file check.
main_options_missing ==
    /\ pc = "main"
    /\ pc' = "exit"
    /\ exit_code' = 1
    /\ UNCHANGED <<particles, start_from, stop_after, storage, item, stage_pos,
                   calls, results>>

main_options_found ==
    /\ pc = "main"
    /\ pc' = "loop"
    /\ UNCHANGED <<particles, start_from, stop_after, storage, item, stage_pos,
                   calls, results, exit_code>>

\* Variant: main leaves the loop at the first work item that is not OK.
NextItem_break(line) ==
    /\ results' = Append(results, line)
    /\ item' = IF line = "OK" THEN item + 1 ELSE Len(particles) + 1
    /\ pc' = "loop"
    /\ stage_pos' = 1

\* End of one iteration of main's loop with the line printed for the item.
NextItem(line) ==
    /\ results' = Append(results, line)
    /\ item' = item + 1
    /\ pc' = "loop"
    /\ stage_pos' = 1

\* main, lines 170-172
main_skip_unknown ==
    /\ pc = "loop"
    /\ item <= Len(particles)
    /\ particles[item] \notin KnownParticles
    /\ NextItem("WARN")
    /\ UNCHANGED <<particles, start_from, stop_after, storage, calls, exit_code>>

\* main, lines 179-182
main_skip_no_fits ==
    /\ pc = "loop"
    /\ item <= Len(particles)
    /\ particles[item] \in KnownParticles
    /\ fits_file(particles[item]) \notin storage
    /\ NextItem("ERROR")
    /\ UNCHANGED <<particles, start_from, stop_after, storage, calls, exit_code>>

\* main, lines 184-187: the call of run_particle_sim
main_call_sim ==
    /\ pc = "loop"
    /\ item <= Len(particles)
    /\ particles[item] \in KnownParticles
    /\ fits_file(particles[item]) \in storage
    /\ pc' = "sim"
    /\ stage_pos' = 1
    /\ UNCHANGED <<particles, start_from, stop_after, storage, item, calls,
                   results, exit_code>>

\* run_particle_sim: a stage whose os.path.exists check fails; return False
sim_missing_input ==
    /\ pc = "sim"
    /\ stage_pos <= Len(stages_to_run(start_from, stop_after))
    /\ first_missing(stages_to_run(start_from, stop_after)[stage_pos],
                     particles[item], storage) # 0
    /\ NextItem(report(FALSE))
    /\ UNCHANGED <<particles, start_from, stop_after, storage, calls, exit_code>>

\* run_particle_sim: a stage whose checks pass; run_stage(exe, options_file, args)
sim_run_stage ==
    /\ pc = "sim"
    /\ stage_pos <= Len(stages_to_run(start_from, stop_after))
    /\ LET stage == stages_to_run(start_from, stop_after)[stage_pos]
           particle == particles[item]
       IN /\ first_missing(stage, particle, storage) = 0
          /\ \E returncode \in ReturnCodes, written \in BOOLEAN :
                /\ calls' = Append(calls, [item |-> item, particle |-> particle,
                                           stage |-> stage,
                                           returncode |-> returncode])
                /\ storage' = IF written
                              THEN storage \cup {stage_output(stage, particle)}
                              ELSE storage
                /\ IF run_stage(returncode)
                   THEN /\ stage_pos' = stage_pos + 1
                        /\ UNCHANGED <<pc, item, results>>
                   ELSE NextItem(report(FALSE))
    /\ UNCHANGED <<particles, start_from, stop_after, exit_code>>

\* run_particle_sim: the stage loop is exhausted; return True
sim_return_true ==
    /\ pc = "sim"
    /\ stage_pos > Len(stages_to_run(start_from, stop_after))
    /\ NextItem(report(TRUE))
    /\ UNCHANGED <<particles, start_from, stop_after, storage, calls, exit_code>>

\* main: the loop over particles is exhausted; the script ends
main_end ==
    /\ pc = "loop"
    /\ item > Len(particles)
    /\ pc' = "exit"
    /\ exit_code' = 0
    /\ UNCHANGED <<particles, start_from, stop_after, storage, item, stage_pos,
                   calls, results>>

-----------------------------------------------------------------------------------------------------------------------------------------------------
(* make_flux_maps.py: arithmetic                                           *)
(*                                                                         *)
(* The code computes in binary floating point.  The model computes the     *)
(* same expressions exactly: a real number is a pair <<n, d>> with d > 0   *)
(* standing for n/d.  Flux values are integers in table units.             *)

\* hp.nside2npix(nside)
nside2npix(n) == 12 * n * n

\* Ring index (from the pole) of the i-th pixel of a polar cap: the r with
\* 2r(r-1) <= i < 2r(r+1).
CapRing(i) == CHOOSE r \in 1..(i + 1) : 2 * r * (r - 1) <= i /\ i < 2 * r * (r + 1)

\* np.cos(hp.pix2ang(nside, ipix, nest=False)[0]) as the numerator over
\* 3*nside^2: the z coordinate of the pixel centre in the RING scheme.
pix2cos(n, p) ==
    LET ncap == 2 * n * (n - 1)
        npix == nside2npix(n)
    IN IF p < ncap
       THEN 3 * n * n - CapRing(p) * CapRing(p)
       ELSE IF p < npix - ncap
            THEN (2 * n - ((p - ncap) \div (4 * n) + n)) * 2 * n
            ELSE CapRing(npix - p - 1) * CapRing(npix - p - 1) - 3 * n * n

\* int(x) of Python for x = num/den with den > 0: truncation toward zero.
PyInt(num, den) == IF num >= 0 THEN num \div den ELSE -((-num) \div den)

\* a[i] of a numpy array held as a sequence: negative indices count from the
\* end; "IndexError" outside -len..len-1.
InBounds(a, i) == -Len(a) <= i /\ i < Len(a)
PyIndex(a, i) == IF i >= 0 THEN a[i + 1] ELSE a[Len(a) + i + 1]

\* df.query('particle == "{}" & energy == {}')
query(table, p, e) ==
    SelectSeq(table, LAMBDA row : row.particle = p /\ row.energy = e)

\* _df['flux'].values
flux_column(rows) == [k \in DOMAIN rows |-> rows[k].flux]

\* _df['costheta'].values
costheta_column(rows) == [k \in DOMAIN rows |-> rows[k].costheta]

\* Variant: the top cell takes the last sample.
clamp_flux_last(fluxes) == -1

\* "flux = fluxes[-2]": the index read in the top cell.
clamp_flux(fluxes) == -2

\* costheta = a/q equals 1.0 - delta_costheta as a real number, for
\* delta_costheta = 2/e.
on_boundary(a, q, e) == e > 0 /\ a * e = q * (e - 2)

\* "costheta >= 1.0 - delta_costheta" for costheta = a/q and
\* delta_costheta = 2/e, e = len(costhetas) - 1 nonzero.  Both sides are
\* rounded doubles; where they are equal as real numbers the comparison
\* gives tie.
in_top_cell(a, q, e, tie) ==
    IF on_boundary(a, q, e)
    THEN tie
    ELSE IF e > 0 THEN a * e >= q * (e - 2) ELSE a * e <= q * (e - 2)

\* Variant: the weights of the two samples are exchanged.
interpolate_swapped(lo, hi, r, den) == <<r * lo + (den - r) * hi, den>>

\* Variant: the upper sample is added unweighted.
interpolate_unweighted(lo, hi, r, den) == <<(den - r) * lo + den * hi, den>>

\* "(1.0 - fraction) * fluxes[i] + fraction * fluxes[i + 1]", fraction = r/den
interpolate(lo, hi, r, den) == <<(den - r) * lo + r * hi, den>>

\* Lines 47-55 for one pixel: the exception raised, the value, and the
\* indices of fluxes[] that were read.
pixel_flux(n, fluxes, p, tie) ==
    LET q     == 3 * n * n
        a     == pix2cos(n, p)
        e     == Len(fluxes) - 1
        num   == (a + q) * e
        den   == 2 * q
        index == PyInt(num, den)
        r     == num - index * den
    IN IF in_top_cell(a, q, e, tie)
       THEN IF InBounds(fluxes, clamp_flux(fluxes))
            THEN [raised |-> "none",
                  value  |-> <<PyIndex(fluxes, clamp_flux(fluxes)) * den, den>>,
                  reads  |-> {clamp_flux(fluxes)}]
            ELSE [raised |-> "IndexError", value |-> <<0, 1>>, reads |-> {}]
       ELSE IF InBounds(fluxes, index) /\ InBounds(fluxes, index + 1)
            THEN [raised |-> "none",
                  value  |-> interpolate(PyIndex(fluxes, index),
                                         PyIndex(fluxes, index + 1), r, den),
                  reads  |-> {index, index + 1}]
            ELSE [raised |-> "IndexError", value |-> <<0, 1>>, reads |-> {}]

-----------------------------------------------------------------------------
(* make_flux_maps.py: the call make_flux_map(nside, df, particle, energy) *)

\* The k-th of m uniformly spaced cosines over [-1, 1], k = 0..m-1.
UniformCos(m, k) == IF m = 1 THEN <<-1, 1>> ELSE <<2 * k - (m - 1), m - 1>>

\* The k-th of m cosines over [-1, 1] with growing spacing.
SkewedCos(m, k) ==
    IF m = 1 THEN <<-1, 1>> ELSE <<2 * k * k - (m - 1) * (m - 1), (m - 1) * (m - 1)>>

\* The table of the end-to-end scenario, flux in tenths.
ExampleFluxes == <<10, 8, 5, 3, 1>>

FluxColumns ==
    UNION {[1..m -> 0..MaxFlux] : m \in 0..MaxSamples} \cup {ExampleFluxes}

\* The rows of one (particle, energy) slice, ascending in costheta.
SliceRows(p, e, fluxes, uniform) ==
    [k \in DOMAIN fluxes |->
        [particle |-> p, energy |-> e,
         costheta |-> IF uniform THEN UniformCos(Len(fluxes), k - 1)
                                 ELSE SkewedCos(Len(fluxes), k - 1),
         flux |-> fluxes[k]]]

\* Rows of the table that belong to another particle or another energy.
OtherRows ==
    {<<>>,
     <<[particle |-> "photon", energy |-> 1, costheta |-> <<-1, 1>>, flux |-> MaxFlux],
       [particle |-> "proton", energy |-> 2, costheta |-> <<-1, 1>>, flux |-> MaxFlux]>>}

\* The results the comparison of line 50 can have at a pixel centre on
\* 1 - delta_costheta, for resolution n and m samples.  With m = 3 the bound
\* is 1.0 - 1.0 = 0.0 without rounding and the cosine of an equatorial centre
\* is not negative: true.  Otherwise 2.0/(m-1), the subtraction and the
\* cosine are rounded and the result is either (n = 2, m = 4: false, the
\* bound is 0.33333333333333337 and the cosine 0.3333333333333333).  Without
\* a centre on the boundary the result is never used.
tie_results(n, m) ==
    IF m # 3 /\ \E p \in 0..(nside2npix(n) - 1) : on_boundary(pix2cos(n, p), 3 * n * n, m - 1)
    THEN BOOLEAN
    ELSE {TRUE}

FluxInit ==
    /\ fpc = "call"
    /\ nside \in 1..MaxNside
    /\ arg_particle = "proton"
    /\ arg_energy = 1
    /\ \E fluxes \in FluxColumns, uniform \in BOOLEAN, other \in OtherRows :
          /\ df = other \o SliceRows("proton", 1, fluxes, uniform)
          /\ ge_at_tie \in tie_results(nside, Len(fluxes))
    /\ ipix = 0
    /\ flux_map = <<>>
    /\ reads = {}
    /\ raised = "none"

FluxIdle ==
    /\ fpc = "idle"
    /\ nside = 1
    /\ df = <<>>
    /\ arg_particle = "proton"
    /\ arg_energy = 1
    /\ ipix = 0
    /\ flux_map = <<>>
    /\ reads = {}
    /\ ge_at_tie = TRUE
    /\ raised = "none"

\* The slice the call works on.
fluxes_of_call == flux_column(query(df, arg_particle, arg_energy))

\* Lines 37-43 with len(costhetas) = 1: 2.0 / 0 raises ZeroDivisionError.
flux_zero_division ==
    /\ fpc = "call"
    /\ Len(costheta_column(query(df, arg_particle, arg_energy))) - 1 = 0
    /\ fpc' = "raised"
    /\ raised' = "ZeroDivisionError"
    /\ UNCHANGED <<nside, df, arg_particle, arg_energy, ipix, flux_map, reads,
                   ge_at_tie>>

\* Lines 37-43: delta_costheta, npix, flux_map = np.zeros(npix)
flux_begin ==
    /\ fpc = "call"
    /\ Len(costheta_column(query(df, arg_particle, arg_energy))) - 1 # 0
    /\ fpc' = "pixels"
    /\ ipix' = 0
    /\ flux_map' = [k \in 1..nside2npix(nside) |-> <<0, 1>>]
    /\ UNCHANGED <<nside, df, arg_particle, arg_energy, reads, ge_at_tie, raised>>

\* Lines 45-57: one iteration of the pixel loop that stores a value.
flux_pixel ==
    /\ fpc = "pixels"
    /\ ipix < nside2npix(nside)
    /\ LET res == pixel_flux(nside, fluxes_of_call, ipix, ge_at_tie)
       IN /\ res.raised = "none"
          /\ flux_map' = [flux_map EXCEPT ![ipix + 1] = res.value]
          /\ reads' = reads \cup res.reads
    /\ ipix' = ipix + 1
    /\ UNCHANGED <<fpc, nside, df, arg_particle, arg_energy, ge_at_tie, raised>>

\* Lines 45-57: an iteration in which fluxes[...] raises IndexError.
flux_pixel_raises ==
    /\ fpc = "pixels"
    /\ ipix < nside2npix(nside)
    /\ LET res == pixel_flux(nside, fluxes_of_call, ipix, ge_at_tie)
       IN /\ res.raised # "none"
          /\ raised' = res.raised
    /\ fpc' = "raised"
    /\ UNCHANGED <<nside, df, arg_particle, arg_energy, ipix, flux_map, reads,
                   ge_at_tie>>

\* Line 59: return flux_map
flux_return ==
    /\ fpc = "pixels"
    /\ ipix = nside2npix(nside)
    /\ fpc' = "returned"
    /\ UNCHANGED <<nside, df, arg_particle, arg_energy, ipix, flux_map, reads,
                   ge_at_tie, raised>>

-----

Init == SimInit /\ FluxIdle

Next ==
    \/ main_options_missing /\ UNCHANGED fluxvars
    \/ main_options_found /\ UNCHANGED fluxvars
    \/ main_skip_unknown /\ UNCHANGED fluxvars
    \/ main_skip_no_fits /\ UNCHANGED fluxvars
    \/ main_call_sim /\ UNCHANGED fluxvars
    \/ sim_missing_input /\ UNCHANGED fluxvars
    \/ sim_run_stage /\ UNCHANGED fluxvars
    \/ sim_return_true /\ UNCHANGED fluxvars
    \/ main_end /\ UNCHANGED fluxvars

Spec == Init /\ [][Next]_vars

FluxNext ==
    \/ flux_zero_division /\ UNCHANGED simvars
    \/ flux_begin /\ UNCHANGED simvars
    \/ flux_pixel /\ UNCHANGED simvars
    \/ flux_pixel_raises /\ UNCHANGED simvars
    \/ flux_return /\ UNCHANGED simvars

FluxStart == FluxInit /\ SimIdle

FluxSpec == FluxStart /\ [][FluxNext]_vars

-----------------------------------------------------------------------------
(* run_sim.py: vocabulary of the properties *)

\* The calls made for work item i, in order.
CallsOf(i) == SelectSeq(calls, LAMBDA c : c.item = i)

\* The stage names of those calls.
StagesOf(i) == [k \in DOMAIN CallsOf(i) |-> CallsOf(i)[k].stage]

\* The stages from start_from through stop_after inclusive, in the fixed
\* order; empty when start_from comes after stop_after.
RequestedRange ==
    [k \in 1..(StageIndex(stop_after) - StageIndex(start_from) + 1) |->
        SIM_STAGES[StageIndex(start_from) + k - 1]]

\* The required input artifacts each stage declares.
DeclaredInputs(stage, particle) ==
    CASE stage = "gramssky"        -> {<<particle, "fits">>}
      [] stage = "gramsg4"         -> {<<particle, "hepmc3">>}
      [] stage = "gramsdetsim"     -> {<<particle, "g4">>}
      [] stage = "gramsreadoutsim" -> {<<particle, "detsim">>}
      [] stage = "gramselecsim"    -> {<<particle, "detsim">>, <<particle, "readoutsim">>}
      [] stage = "opticalsim"      -> {<<particle, "g4">>}
      [] stage = "opdetsim"        -> {<<particle, "opticalsim">>}

\* A step that starts an external process.
Invokes == Len(calls') = Len(calls) + 1

\* The call a step makes.
NewCall == calls'[Len(calls')]

\* A step that ends the current work item with a printed line from the set.
EndsItemAs(lines) ==
    /\ Len(results') = Len(results) + 1
    /\ results'[Len(results')] \in lines

\* Lines main prints for a work item that did not complete.
FailedLines == {"FAIL", "ERROR"}

\* The stage the run is about to handle for the current work item, if any.
AtStage(stage) ==
    \/ /\ pc = "sim"
       /\ stage_pos <= Len(RequestedRange)
       /\ RequestedRange[stage_pos] = stage
    \/ /\ pc = "loop"
       /\ item <= Len(particles)
       /\ particles[item] \in KnownParticles
       /\ RequestedRange # <<>>
       /\ RequestedRange[1] = stage
       /\ stage = "gramssky"

-----------------------------------------------------------------------------
(* run_sim.py: properties *)

\* C1: a stage's executable is started only in a state where all of the
\* stage's declared required input artifacts exist; a stage that is reached
\* with one of them missing is not started and its work item ends as failed.
C1_InputsExistBeforeStage ==
    [][/\ Invokes => DeclaredInputs(NewCall.stage, NewCall.particle) \subseteq storage
       /\ \A stage \in StageNames :
            (AtStage(stage)
             /\ ~(DeclaredInputs(stage, particles[item]) \subseteq storage))
                => (calls' = calls /\ EndsItemAs(FailedLines))]_vars

\* C1 witness: opticalsim has run for a particle whose elecsim slot is absent,
\* and another work item ended as failed without any call.
C1_Witness ==
    /\ \E k \in DOMAIN calls :
          /\ calls[k].stage = "opticalsim"
          /\ <<calls[k].particle, "elecsim">> \notin storage
    /\ \E i \in DOMAIN results : results[i] \in FailedLines /\ CallsOf(i) = <<>>

\* C2: fail-fast without retry: a call that returned nonzero is the last call
\* of its work item and the item is reported FAIL; no stage is called twice for
\* an item; and no process is started for an item whose outcome is printed.
C2_FailFast ==
    /\ [](\A k \in DOMAIN calls :
            /\ calls[k].returncode # 0 =>
                  /\ \A j \in DOMAIN calls : j > k => calls[j].item # calls[k].item
                  /\ calls[k].item \in DOMAIN results
                  /\ results[calls[k].item] = "FAIL"
            /\ \A j \in DOMAIN calls :
                  (j # k /\ calls[j].item = calls[k].item)
                      => calls[j].stage # calls[k].stage)
    /\ [][/\ Invokes => NewCall.item > Len(results)
          /\ \A stage \in StageNames :
               (pc = "sim" /\ AtStage(stage)
                /\ ~(stage_inputs(stage, particles[item]) \subseteq storage))
                   => (calls' = calls /\ EndsItemAs({"FAIL"}))]_vars

\* C2 witness: the run is over, a call of the first item returned nonzero and
\* the second item failed on a missing input after a successful call.
C2_Witness ==
    /\ pc = "exit"
    /\ Len(results) = 2
    /\ \E k \in DOMAIN calls : calls[k].item = 1 /\ calls[k].returncode # 0
    /\ results[2] = "FAIL"
    /\ CallsOf(2) # <<>>
    /\ \A k \in DOMAIN calls : calls[k].item = 2 => calls[k].returncode = 0

\* A work item whose inputs exist and whose stages all exit 0: its sky map
\* exists, every call made for it returned 0, and every input of every stage
\* of the requested range is on storage.
IndependentlyValid(i) ==
    /\ particles[i] \in KnownParticles
    /\ fits_file(particles[i]) \in storage
    /\ \A k \in DOMAIN calls : calls[k].item = i => calls[k].returncode = 0
    /\ \A k \in DOMAIN RequestedRange :
          stage_inputs(RequestedRange[k], particles[i]) \subseteq storage

\* C3: work-item isolation: when the run is over every work item of the list
\* has been handled, and every independently valid item is reported OK with
\* the whole requested range run for it, whatever happened to the others.
C3_Isolation ==
    (pc = "exit" /\ exit_code = 0) =>
        /\ Len(results) = Len(particles)
        /\ \A i \in DOMAIN particles :
              IndependentlyValid(i) =>
                  (results[i] = "OK" /\ StagesOf(i) = RequestedRange)

\* C3 witness: the first item failed and the second, valid, item completed.
C3_Witness ==
    /\ pc = "exit"
    /\ Len(results) = 2
    /\ results[1] \in FailedLines
    /\ IndependentlyValid(2)
    /\ results[2] = "OK"
    /\ CallsOf(2) # <<>>

\* C4: with start_from not after stop_after, the calls made for a work item
\* are a prefix of the requested range start_from..stop_after in the fixed
\* order, and for an item reported OK they are exactly that range, each stage
\* once.
C4_ExactRange ==
    StageIndex(start_from) <= StageIndex(stop_after) =>
        \A i \in DOMAIN particles :
            /\ Len(StagesOf(i)) <= Len(RequestedRange)
            /\ StagesOf(i) = SubSeq(RequestedRange, 1, Len(StagesOf(i)))
            /\ (i \in DOMAIN results /\ results[i] = "OK")
                   => StagesOf(i) = RequestedRange

\* C4 witness: a proper sub-range of two or more stages ran to completion.
C4_Witness ==
    /\ start_from # "gramssky"
    /\ stop_after # "opdetsim"
    /\ \E i \in DOMAIN results :
          /\ results[i] = "OK"
          /\ Len(CallsOf(i)) >= 2

\* The output artifacts of the stages before start_from.
EarlierArtifacts(particle) ==
    {stage_output(SIM_STAGES[k], particle) : k \in 1..(StageIndex(start_from) - 1)}

\* C5: resume.  For a work item whose artifacts of all stages before
\* start_from exist, a run from a later start_from in which every stage that
\* is run exits 0 and writes its output reports OK and calls no earlier stage.
C5_Resume ==
    (pc = "exit" /\ exit_code = 0
     /\ StageIndex(start_from) > 1
     /\ StageIndex(start_from) <= StageIndex(stop_after)
     /\ LIGHTMAP_DIR \in storage) =>
        \A i \in DOMAIN particles :
            (/\ particles[i] \in KnownParticles
             /\ EarlierArtifacts(particles[i]) \subseteq storage
             /\ \A k \in DOMAIN calls : calls[k].item = i =>
                    /\ calls[k].returncode = 0
                    /\ stage_output(calls[k].stage, particles[i]) \in storage)
                => /\ results[i] = "OK"
                   /\ \A k \in DOMAIN calls : calls[k].item = i =>
                          StageIndex(calls[k].stage) >= StageIndex(start_from)

\* C6: the process ends with a nonzero exit code when a work item failed.
C6_NonZeroExitOnFailure ==
    (pc = "exit" /\ \E i \in DOMAIN results : results[i] = "FAIL")
        => exit_code # 0

\* Every stage of the requested range was called for item i and returned 0.
AllStagesSucceeded(i) ==
    \A k \in DOMAIN RequestedRange :
        \E j \in DOMAIN calls :
            /\ calls[j].item = i
            /\ calls[j].stage = RequestedRange[k]
            /\ calls[j].returncode = 0

\* C7 as stated: run_particle_sim returns success only if stop_after was
\* called and returned 0.
C7_SuccessMeansStopStageRan ==
    \A i \in DOMAIN results :
        results[i] = "OK" =>
            \E j \in DOMAIN calls :
                /\ calls[j].item = i
                /\ calls[j].stage = stop_after
                /\ calls[j].returncode = 0

\* C7 amended: a run of run_particle_sim always has a next step until it
\* returns, it returns exactly one of success and failure, success if and
\* only if every stage of the requested range (empty when start_from comes
\* after stop_after) was called and returned 0, and no stage is called for
\* the item after it returned.
C7_OutcomeIffRangeSucceeded ==
    /\ [](/\ pc = "sim" =>
               /\ Len(results) = item - 1
               /\ stage_pos <= Len(RequestedRange) + 1
               /\ ENABLED (sim_missing_input \/ sim_run_stage \/ sim_return_true)
          /\ \A i \in DOMAIN results :
               /\ results[i] = "OK" => AllStagesSucceeded(i)
               /\ results[i] = "FAIL" => ~AllStagesSucceeded(i))
    /\ [][/\ Invokes => NewCall.item \notin DOMAIN results
          /\ \A i \in DOMAIN results :
               i \in DOMAIN results' /\ results'[i] = results[i]]_vars

\* C7 witness: in one run, one item returned success after at least one call
\* and the other returned failure.
C7_Witness ==
    /\ Len(results) = 2
    /\ \E i, j \in DOMAIN results :
          /\ results[i] = "OK"
          /\ results[j] = "FAIL"
          /\ CallsOf(i) # <<>>

\* The empty range: start_from after stop_after, reported OK with no call.
C7_EmptyRangeWitness ==
    /\ StageIndex(start_from) > StageIndex(stop_after)
    /\ \E i \in DOMAIN results : results[i] = "OK" /\ CallsOf(i) = <<>>

-----------------------------------------------------------------------------
(* make_flux_maps.py: vocabulary of the properties *)

\* The requested slice and its size m.
SliceOfCall == query(df, arg_particle, arg_energy)
SampleCount == Len(SliceOfCall)

\* table[i], i = 0..m-1, of the requested slice.
Table(i) == SliceOfCall[i + 1].flux

\* Equality and order of two reals <<n, d>>, d > 0.
RatEq(x, y) == x[1] * y[2] = y[1] * x[2]
RatLeq(x, y) == x[1] * y[2] <= y[1] * x[2]

\* The slice has m >= 2 samples at -1 + k*D, D = 2/(m-1), in ascending order.
UniformSlice ==
    /\ SampleCount >= 2
    /\ \A k \in 1..SampleCount :
          RatEq(SliceOfCall[k].costheta, <<2 * (k - 1) - (SampleCount - 1), SampleCount - 1>>)

\* The pixels looked at in a state: the pixel stored by the last step of the
\* loop, and every pixel of the map once it is returned.  A stored entry is
\* never written again, ipix only grows.
WrittenPixels ==
    CASE fpc = "returned" -> 0..(ipix - 1)
      [] fpc = "pixels"   -> {ipix - 1} \ {-1}
      [] OTHER            -> {}

\* The zenith cosine of pixel p as a real.
PixelCos(p) == <<pix2cos(nside, p), 3 * nside * nside>>

\* c >= 1 - D for the cosine c of pixel p and D = 2/(m-1).
InTopCell(p) == RatLeq(<<SampleCount - 3, SampleCount - 1>>, PixelCos(p))

\* (c + 1)/D for the cosine c of pixel p, as a real.
FractionalIndex(p) ==
    <<(PixelCos(p)[1] + PixelCos(p)[2]) * (SampleCount - 1), 2 * PixelCos(p)[2]>>

-----------------------------------------------------------------------------
(* make_flux_maps.py: properties *)

\* C8: boundary policy.  For a uniform table of m >= 2 samples every pixel
\* with zenith cosine c >= 1 - D holds exactly table[m-2]; in the scenario
\* with samples 1.0, 0.8, 0.5, 0.3, 0.1 and resolution 1 the pixels with
\* c >= 0.5 are pixels 0..3 and each holds 0.3.
C8_TopCellPenultimate ==
    /\ UniformSlice =>
          \A p \in WrittenPixels :
              InTopCell(p) => RatEq(flux_map[p + 1], <<Table(SampleCount - 2), 1>>)
    /\ (fpc = "returned" /\ nside = 1 /\ fluxes_of_call = ExampleFluxes) =>
          \A p \in 0..11 :
              /\ InTopCell(p) <=> p \in 0..3
              /\ InTopCell(p) => RatEq(flux_map[p + 1], <<3, 1>>)

\* C8 witness: the scenario of the spec has returned, and pixel 0 holds 0.3,
\* which is neither the last sample nor the first.
C8_Witness ==
    /\ fpc = "returned"
    /\ nside = 1
    /\ UniformSlice
    /\ fluxes_of_call = ExampleFluxes
    /\ InTopCell(0)
    /\ RatEq(flux_map[1], <<3, 1>>)

\* C9: interpolation.  For a uniform table of m >= 2 samples and a pixel with
\* c < 1 - D, with i the integer part and f = r/d the fractional part of
\* (c+1)/D, the pixel holds (1-f)*table[i] + f*table[i+1]; when f = 0 it holds
\* table[i] exactly.
C9_LinearInterpolation ==
    UniformSlice =>
        \A p \in WrittenPixels :
            ~InTopCell(p) =>
                LET x == FractionalIndex(p)
                    i == x[1] \div x[2]
                    r == x[1] % x[2]
                IN /\ i \in 0..(SampleCount - 3)
                   /\ RatEq(flux_map[p + 1],
                            <<(x[2] - r) * Table(i) + r * Table(i + 1), x[2]>>)
                   /\ r = 0 => RatEq(flux_map[p + 1], <<Table(i), 1>>)

\* C9 witness: a stored pixel below the top cell lies exactly on a sample
\* point whose neighbour holds another value, and another stored pixel lies
\* strictly between two sample points.
C9_Witness ==
    /\ UniformSlice
    /\ \E p \in WrittenPixels :
          /\ ~InTopCell(p)
          /\ FractionalIndex(p)[1] % FractionalIndex(p)[2] = 0
          /\ Table(FractionalIndex(p)[1] \div FractionalIndex(p)[2])
                # Table(FractionalIndex(p)[1] \div FractionalIndex(p)[2] + 1)
    /\ \E p \in WrittenPixels :
          /\ ~InTopCell(p)
          /\ FractionalIndex(p)[1] % FractionalIndex(p)[2] # 0

\* Smallest and largest tabulated value of the slice.
TableMin == CHOOSE v \in {Table(i) : i \in 0..(SampleCount - 1)} :
                \A i \in 0..(SampleCount - 1) : v <= Table(i)
TableMax == CHOOSE v \in {Table(i) : i \in 0..(SampleCount - 1)} :
                \A i \in 0..(SampleCount - 1) : v >= Table(i)

\* C10: for a uniform table of m >= 2 samples the call raises nothing, the
\* map has 12*N*N entries from the first pixel on, the returned map has every
\* pixel index written, and every stored entry lies in [min(table), max(table)].
C10_SizeAndRange ==
    UniformSlice =>
        /\ raised = "none"
        /\ fpc \in {"pixels", "returned"} => Len(flux_map) = 12 * nside * nside
        /\ fpc = "returned" => ipix = 12 * nside * nside
        /\ \A p \in WrittenPixels :
              /\ RatLeq(<<TableMin, 1>>, flux_map[p + 1])
              /\ RatLeq(flux_map[p + 1], <<TableMax, 1>>)

\* C10 witness: a map of 48 pixels has been returned for a table that is
\* not monotone.
C10_Witness ==
    /\ fpc = "returned"
    /\ nside = 2
    /\ Len(flux_map) = 48
    /\ UniformSlice
    /\ SampleCount >= 3
    /\ Table(0) < Table(1)
    /\ Table(2) < Table(1)

\* C11: make_flux_map checks that the cosines of the slice are uniformly
\* spaced and fails with DataInsufficient when they are not: a slice of two
\* or more samples that is not uniformly spaced never yields a map, and a call
\* on it that has ended has raised DataInsufficient.
C11_RejectsNonUniform ==
    (SampleCount >= 2 /\ ~UniformSlice) =>
        /\ fpc # "returned"
        /\ fpc = "raised" => raised = "DataInsufficient"

\* C12: a slice with fewer than two samples fails with DataInsufficient, or
\* with NotFound when it has no row at all; the call never returns a map and
\* never fails with another error such as a division by zero or an index
\* error.
C12_TooFewSamples ==
    (fpc \in {"call", "pixels", "raised", "returned"} /\ SampleCount < 2) =>
        /\ fpc # "returned"
        /\ fpc = "raised" =>
              raised = (IF SampleCount = 0 THEN "NotFound" ELSE "DataInsufficient")

-----------------------------------------------------------------------------
(* run_sim.py: properties of resumed, empty and unproductive runs *)

\* The current work item is a known particle that main is about to handle.
AtKnownItem ==
    /\ pc = "loop"
    /\ item <= Len(particles)
    /\ particles[item] \in KnownParticles

\* C14: a run whose start_from is not the first stage applies only the
\* precondition check of the stages it executes: a work item whose start_from
\* inputs exist is handed to run_particle_sim and start_from is invoked for
\* it, whether or not the sky map file, which only gramssky consumes, exists.
C14_ResumeChecksOnlyItsStages ==
    [][/\ (/\ AtKnownItem
           /\ start_from # "gramssky"
           /\ RequestedRange # <<>>
           /\ stage_inputs(start_from, particles[item]) \subseteq storage)
          => (pc' = "sim" /\ results' = results)
       /\ (/\ pc = "sim"
           /\ stage_pos = 1
           /\ start_from # "gramssky"
           /\ RequestedRange # <<>>
           /\ stage_inputs(start_from, particles[item]) \subseteq storage)
          => (Invokes /\ NewCall.stage = start_from)]_vars

\* C16: when start_from comes after stop_after, run_particle_sim starts no
\* process and reports success whatever the storage holds: no call is ever
\* made, no work item ends as FAIL, and the step out of run_particle_sim
\* prints OK without a call.
C16_EmptyRangeSucceeds ==
    /\ [](StageIndex(start_from) > StageIndex(stop_after) =>
            /\ calls = <<>>
            /\ \A i \in DOMAIN results : results[i] # "FAIL")
    /\ [][(pc = "sim" /\ StageIndex(start_from) > StageIndex(stop_after))
            => (EndsItemAs({"OK"}) /\ calls' = calls /\ storage' = storage)]_vars

\* C16 witness: with start_from after stop_after a work item was reported OK
\* without a call although the inputs of start_from do not exist.
C16_Witness ==
    /\ StageIndex(start_from) > StageIndex(stop_after)
    /\ \E i \in DOMAIN results :
          /\ results[i] = "OK"
          /\ CallsOf(i) = <<>>
          /\ ~(stage_inputs(start_from, particles[i]) \subseteq storage)
          /\ ~(stage_inputs(stop_after, particles[i]) \subseteq storage)

\* Every call made for work item i returned 0.
AllCallsSucceeded(i) == \A k \in DOMAIN CallsOf(i) : CallsOf(i)[k].returncode = 0

\* C17: the outcome of a stage is its exit status alone: a call that returned
\* 0 lets the item go on and a call that returned nonzero ends it as FAIL,
\* whether or not the output was written.  An item that ended as FAIL after
\* calls that all returned 0 stopped at the next stage of the range, one of
\* whose inputs is missing; an item reported OK had the inputs of every stage
\* of the range, which says nothing about the output of stop_after.
C17_ExitStatusOnly ==
    /\ [][Invokes =>
            IF NewCall.returncode = 0
            THEN results' = results /\ pc' = "sim" /\ stage_pos' = stage_pos + 1
            ELSE EndsItemAs({"FAIL"})]_vars
    /\ [](\A i \in DOMAIN results :
            /\ (results[i] = "FAIL" /\ AllCallsSucceeded(i)) =>
                  /\ Len(CallsOf(i)) < Len(RequestedRange)
                  /\ ~(stage_inputs(RequestedRange[Len(CallsOf(i)) + 1],
                                    particles[i]) \subseteq storage)
            /\ results[i] = "OK" =>
                  \A k \in DOMAIN RequestedRange :
                      stage_inputs(RequestedRange[k], particles[i]) \subseteq storage)

\* C17 witness: one work item was reported OK after calls although the output
\* of stop_after does not exist, and another ended as FAIL at the stage after
\* a call that returned 0 without writing its output.
C17_Witness ==
    \E i, j \in DOMAIN results :
        /\ results[i] = "OK"
        /\ CallsOf(i) # <<>>
        /\ stage_output(stop_after, particles[i]) \notin storage
        /\ results[j] = "FAIL"
        /\ CallsOf(j) # <<>>
        /\ AllCallsSucceeded(j)
        /\ stage_output(CallsOf(j)[Len(CallsOf(j))].stage, particles[j]) \notin storage

-----------------------------------------------------------------------------
(* run_sim.py: artifact privacy *)

\* The files on the command lines of the stages run for work item i.
FilesOf(i) == UNION {cmd(CallsOf(i)[k].stage, particles[i]) : k \in DOMAIN CallsOf(i)}

\* The files the stages run for work item i were told to write.
OutputsOf(i) == {stage_output(CallsOf(i)[k].stage, particles[i]) : k \in DOMAIN CallsOf(i)}

\* The paths whose existence the handling of work item i looks at.
PathsOfItem(i) == {<<particles[i], k>> : k \in FileKinds} \cup {LIGHTMAP_DIR}

-----------------------------------------------------------------------------
(* make_flux_maps.py: the indices read *)

\* The position in 0..m-1 that fluxes[i] reads, for i as written in the code.
Position(i) == IF i < 0 THEN SampleCount + i ELSE i

\* The positions of the flux table read so far.
PositionsRead == {Position(i) : i \in reads}

\* The pixels handled so far whose centre lies on 1 - delta_costheta.
BoundaryPixels ==
    {p \in 0..(ipix - 1) :
        on_boundary(pix2cos(nside, p), 3 * nside * nside, SampleCount - 1)}

\* The flux column with its last sample replaced by another value.
WithOtherLastSample(fluxes) == [fluxes EXCEPT ![Len(fluxes)] = @ + 1]

\* C15 as stated: for m >= 2 every index used to read the flux table lies in
\* 0..m-2, the last sample table[m-1] is never read, and no read is out of
\* bounds.
C15_LastSampleNeverRead ==
    (fpc \in {"pixels", "raised", "returned"} /\ SampleCount >= 2) =>
        /\ raised = "none"
        /\ PositionsRead \subseteq 0..(SampleCount - 2)

\* C15: for m >= 2 no read of the flux table is out of bounds: every index
\* used lies in 0..m-1.  table[m-1] is read only for a pixel centre that lies
\* on 1 - delta_costheta and for which the comparison of line 50 came out
\* false; every pixel value written is the one the same call computes when
\* table[m-1] is replaced by another value (a value is linear in each
\* sample, so one other value decides), so no pixel value depends on it.
C15_ReadsInBounds ==
    (fpc \in {"pixels", "raised", "returned"} /\ SampleCount >= 2) =>
        /\ raised = "none"
        /\ PositionsRead \subseteq 0..(SampleCount - 1)
        /\ (SampleCount - 1) \in PositionsRead =>
              (~ge_at_tie /\ BoundaryPixels # {})
        /\ LET other == WithOtherLastSample(fluxes_of_call)
           IN \A p \in WrittenPixels :
                 RatEq(flux_map[p + 1], pixel_flux(nside, other, p, ge_at_tie).value)

\* C15 witness: a returned map of a call that read table[m-1], which differs
\* from table[m-2], at a pixel on the boundary of the top cell.
C15_Witness ==
    /\ fpc = "returned"
    /\ SampleCount >= 2
    /\ (SampleCount - 1) \in PositionsRead
    /\ BoundaryPixels # {}
    /\ Table(SampleCount - 1) # Table(SampleCount - 2)

====
